---- MODULE Spec2Model ----
(***************************************************************************)
(* Model of stevesgl/smart-grocery-backend: the Airtable-backed GTIN       *)
(* cache of app_old.py (check_airtable_cache, count_airtable_rows,         *)
(* delete_least_valuable_row, store_to_airtable, driven by gtin_lookup)    *)
(* and the ingredient classification of app.py (load_data_lookups,         *)
(* analyze_ingredients, calculate_nova_score).                             *)
(*                                                                         *)
(* Time is counted in whole days.  Strings are sequences of one-character  *)
(* strings, so that the regular-expression steps of the code are computed  *)
(* character by character.                                                 *)
(***************************************************************************)
EXTENDS Integers, Sequences, FiniteSets, TLC

(***************************************************************************)
(* Bounds of the model and constants of the program                        *)
(***************************************************************************)

\* capacity of the cache table (1000 in the source, scaled down here)
AIRTABLE_MAX_ROWS == 2

FRESHNESS_WINDOW_DAYS == 7

FRESHNESS_BONUS == 5

\* datetime.min, the fallback of an unparsable last_access, in days
DATETIME_MIN == -100000

\* request handlers running at the same time
NumWorkers == 2

\* lookup requests accepted in one behaviour
MaxRequests == 4

\* the clock stops here
MaxTime == 8

\* phrases in an enumerated ingredient list
MaxPhrases == 3

\* names in a collection handed to calculate_nova_score
MaxNames == 3

\* at most this many parsed ingredients are handed to the completeness scorers
MaxItems == 10

\* analyze_ingredients calls in one behaviour of the repeated-call specification
MaxCalls == 3

\* records in an enumerated substance list
MaxEntries == 2

Workers == 1..NumWorkers

\* one more product than the table can hold
GtinNames == <<"A", "B", "C", "D", "E", "F">>

GTINS == {GtinNames[i] : i \in 1..(AIRTABLE_MAX_ROWS + 1)}

\* age in days of a row that was last read long ago
StaleDays == 30

\* record ids the table hands out: enough for every row and every id a
\* handler still holds
RecordIds == 1..(AIRTABLE_MAX_ROWS + 2 * NumWorkers + 1)

VARIABLES
    airtable,   \* the cache table: sequence of rows, in get_all order
    now,        \* datetime.now(), in days
    req,        \* per worker: the position and locals of its gtin_lookup call
    served,     \* number of requests accepted so far
    hits,       \* history: per row id, the check_airtable_cache hits completed on it
    additives_file,     \* data/all_fda_substances_full.json
    common_file,        \* data/common_ingredients.json
    ADDITIVES_LOOKUP,               \* normalized alias -> normalized canonical name
    COMMON_INGREDIENTS_LOOKUP,      \* normalized common ingredient -> original casing
    COMMON_FDA_SUBSTANCES_SET,      \* canonical names that are also common ingredients
    FDA_SUBSTANCE_DETAILS_LOOKUP,   \* normalized canonical name -> entry
    app_pc,             \* "import" before load_data_lookups, "ready" after it,
                        \* "done" once analyze_ingredients has returned
    ingredients_string, \* the argument of the analyze_ingredients call
    analysis,           \* what the call returned
    calls,              \* history: every analyze_ingredients call so far, with
                        \* its argument and what it returned
    nova_args,          \* the four collections handed to calculate_nova_score
    nova_result,        \* what app_old.py's and app.py's calculate_nova_score returned
    score_args,         \* the counts handed to the completeness scorers
    score_result        \* what each completeness scorer returned

cacheVars == <<airtable, now, req, served, hits>>

indexVars == <<ADDITIVES_LOOKUP, COMMON_INGREDIENTS_LOOKUP, COMMON_FDA_SUBSTANCES_SET,
               FDA_SUBSTANCE_DETAILS_LOOKUP>>

analyzeVars == <<additives_file, common_file, indexVars, app_pc, ingredients_string,
                 analysis, calls>>

novaVars == <<nova_args, nova_result, score_args, score_result>>

vars == <<cacheVars, analyzeVars, novaVars>>

(***************************************************************************)
(* Helpers on sequences                                                    *)
(***************************************************************************)

Range(s) == {s[i] : i \in 1..Len(s)}

RemoveAt(s, i) == SubSeq(s, 1, i - 1) \o SubSeq(s, i + 1, Len(s))

Min(S) == CHOOSE x \in S : \A y \in S : x <= y

(***************************************************************************)
(* Strings: str methods and the regular expressions of app.py              *)
(***************************************************************************)

UpperLetters ==
    <<"A", "B", "C", "D", "E", "F", "G", "H", "I", "J", "K", "L", "M",
      "N", "O", "P", "Q", "R", "S", "T", "U", "V", "W", "X", "Y", "Z">>

LowerLetters ==
    <<"a", "b", "c", "d", "e", "f", "g", "h", "i", "j", "k", "l", "m",
      "n", "o", "p", "q", "r", "s", "t", "u", "v", "w", "x", "y", "z">>

Digits == {"0", "1", "2", "3", "4", "5", "6", "7", "8", "9"}

ToLower == [c \in Range(UpperLetters) |->
              LowerLetters[CHOOSE i \in 1..Len(UpperLetters) : UpperLetters[i] = c]]

ToUpper == [c \in Range(LowerLetters) |->
              UpperLetters[CHOOSE i \in 1..Len(LowerLetters) : LowerLetters[i] = c]]

\* [a-z0-9]
LowerAlnum == Range(LowerLetters) \cup Digits

\* \s
IsSpace(c) == c = " "

\* str.lower()
lower(s) == [i \in 1..Len(s) |-> IF s[i] \in DOMAIN ToLower THEN ToLower[s[i]] ELSE s[i]]

\* str.title(): a letter that follows a non-letter is upper-cased, every
\* other letter lower-cased
title(s) ==
    [i \in 1..Len(s) |->
        LET letters == Range(LowerLetters) \cup Range(UpperLetters)
            first == i = 1 \/ s[i - 1] \notin letters
        IN  IF first /\ s[i] \in DOMAIN ToUpper THEN ToUpper[s[i]]
            ELSE IF ~first /\ s[i] \in DOMAIN ToLower THEN ToLower[s[i]]
            ELSE s[i]]

Drop(s, n) == SubSeq(s, n + 1, Len(s))

\* length of the run of whitespace that starts at s[i]
RECURSIVE SpaceRun(_, _)
SpaceRun(s, i) == IF i <= Len(s) /\ IsSpace(s[i]) THEN 1 + SpaceRun(s, i + 1) ELSE 0

\* length of the run of characters of set cs that starts at s[i]
RECURSIVE CharRun(_, _, _)
CharRun(s, i, cs) == IF i <= Len(s) /\ s[i] \in cs THEN 1 + CharRun(s, i + 1, cs) ELSE 0

\* str.rstrip(chars)
RECURSIVE rstrip_chars(_, _)
rstrip_chars(s, cs) ==
    IF s # <<>> /\ s[Len(s)] \in cs THEN rstrip_chars(SubSeq(s, 1, Len(s) - 1), cs) ELSE s

\* str.strip()
strip(s) == rstrip_chars(Drop(s, SpaceRun(s, 1)), {" "})

StartsWith(s, pat) == Len(s) >= Len(pat) /\ SubSeq(s, 1, Len(pat)) = pat

\* pat in s
Contains(s, pat) == \E i \in 0..(Len(s) - Len(pat)) : SubSeq(s, i + 1, i + Len(pat)) = pat

\* re.sub(r'\s+', ' ', s)
RECURSIVE collapse_spaces(_)
collapse_spaces(s) ==
    IF s = <<>> THEN <<>>
    ELSE IF IsSpace(s[1]) THEN <<" ">> \o collapse_spaces(Drop(s, SpaceRun(s, 1)))
    ELSE <<s[1]>> \o collapse_spaces(Tail(s))

\* str.replace(old, new)
RECURSIVE replace(_, _, _)
replace(s, old, new) ==
    IF s = <<>> THEN <<>>
    ELSE IF StartsWith(s, old) THEN new \o replace(Drop(s, Len(old)), old, new)
    ELSE <<s[1]>> \o replace(Tail(s), old, new)

\* str.split()
RECURSIVE split_words(_)
split_words(s) ==
    LET t == Drop(s, SpaceRun(s, 1))
        n == CHOOSE k \in 0..Len(t) :
                /\ \A i \in 1..k : ~IsSpace(t[i])
                /\ (k < Len(t) => IsSpace(t[k + 1]))
    IN  IF t = <<>> THEN <<>> ELSE <<SubSeq(t, 1, n)>> \o split_words(Drop(t, n))

\* " ".join(words)
RECURSIVE join(_)
join(words) ==
    IF words = <<>> THEN <<>>
    ELSE IF Len(words) = 1 THEN words[1]
    ELSE words[1] \o <<" ">> \o join(Tail(words))

\* re.sub(r'[^...]', '', s): only the characters of set cs are kept
keep_chars(s, cs) == SelectSeq(s, LAMBDA c : c \in cs)

\* the pieces of a list that are not empty once stripped, stripped
stripped_nonempty(pieces) ==
    LET st == [i \in 1..Len(pieces) |-> strip(pieces[i])]
    IN  SelectSeq(st, LAMBDA c : c # <<>>)

\* re.split(r',\s*|;\s*', s); cur is the piece being read
RECURSIVE split_commas(_, _)
split_commas(s, cur) ==
    IF s = <<>> THEN <<cur>>
    ELSE IF s[1] \in {",", ";"}
         THEN <<cur>> \o split_commas(Drop(s, 1 + SpaceRun(s, 2)), <<>>)
    ELSE split_commas(Tail(s), Append(cur, s[1]))

\* re.split(r',\s*| and\s*', s); cur is the piece being read
RECURSIVE split_commas_and(_, _)
split_commas_and(s, cur) ==
    IF s = <<>> THEN <<cur>>
    ELSE IF s[1] = ","
         THEN <<cur>> \o split_commas_and(Drop(s, 1 + SpaceRun(s, 2)), <<>>)
    ELSE IF StartsWith(s, <<" ", "a", "n", "d">>)
         THEN <<cur>> \o split_commas_and(Drop(s, 4 + SpaceRun(s, 5)), <<>>)
    ELSE split_commas_and(Tail(s), Append(cur, s[1]))

\* the labels of r'^(?:ingredients|contains|ingredient list|ingredients list):?\s*',
\* in the order the alternation tries them
LabelWords ==
    <<<<"i", "n", "g", "r", "e", "d", "i", "e", "n", "t", "s">>,
      <<"c", "o", "n", "t", "a", "i", "n", "s">>,
      <<"i", "n", "g", "r", "e", "d", "i", "e", "n", "t", " ", "l", "i", "s", "t">>,
      <<"i", "n", "g", "r", "e", "d", "i", "e", "n", "t", "s", " ", "l", "i", "s", "t">>>>

\* re.sub of that pattern with '', flags=re.IGNORECASE: the first label that
\* matches at the start is removed with an optional colon and the whitespace
\* after it
strip_label(s) ==
    LET low == lower(s)
        ms == {k \in 1..Len(LabelWords) : StartsWith(low, LabelWords[k])}
    IN  IF ms = {} THEN s
        ELSE LET n == Len(LabelWords[Min(ms)])
                 c == IF n < Len(s) /\ s[n + 1] = ":" THEN 1 ELSE 0
             IN  Drop(s, n + c + SpaceRun(s, n + c + 1))

\* re.sub(r'\s+and/or\s+', ', ', s, flags=re.IGNORECASE)
RECURSIVE sub_and_or(_)
sub_and_or(s) ==
    IF s = <<>> THEN <<>>
    ELSE LET k == SpaceRun(s, 1)
             rest == Drop(s, k)
             m == SpaceRun(rest, 7)
         IN  IF k >= 1 /\ StartsWith(lower(rest), <<"a", "n", "d", "/", "o", "r">>) /\ m >= 1
             THEN <<",", " ">> \o sub_and_or(Drop(rest, 6 + m))
             ELSE <<s[1]>> \o sub_and_or(Tail(s))

\* the fixed words of the parenthetical technical descriptors
DescriptorWords ==
    <<<<"c", "o", "l", "o", "r">>,
      <<"f", "l", "a", "v", "o", "u", "r">>,
      <<"f", "l", "a", "v", "o", "r">>,
      <<"e", "m", "u", "l", "s", "i", "f", "i", "e", "r">>,
      <<"s", "t", "a", "b", "i", "l", "i", "z", "e", "r">>,
      <<"t", "h", "i", "c", "k", "e", "n", "e", "r">>,
      <<"p", "r", "e", "s", "e", "r", "v", "a", "t", "i", "v", "e">>,
      <<"a", "n", "t", "i", "o", "x", "i", "d", "a", "n", "t">>,
      <<"a", "c", "i", "d", "i", "f", "i", "e", "r">>,
      <<"s", "w", "e", "e", "t", "e", "n", "e", "r">>,
      <<"g", "e", "l", "l", "i", "n", "g", " ", "a", "g", "e", "n", "t">>,
      <<"f", "i", "r", "m", "i", "n", "g", " ", "a", "g", "e", "n", "t">>,
      <<"n", "u", "t", "r", "i", "e", "n", "t">>>>

\* length of the match of (?:color|...|vitamin [a-z0-9]+)\) at the start of
\* s (lower-cased by the caller), 0 when there is none
descriptor_len(s) ==
    LET ms == {k \in 1..Len(DescriptorWords) :
                 StartsWith(s, DescriptorWords[k] \o <<")">>)}
        v == CharRun(s, 9, LowerAlnum)
    IN  IF ms # {} THEN Len(DescriptorWords[Min(ms)]) + 1
        ELSE IF StartsWith(s, <<"v", "i", "t", "a", "m", "i", "n", " ">>) /\ v >= 1 /\ 8 + v < Len(s) /\ s[9 + v] = ")"
             THEN 9 + v
        ELSE 0

\* re.sub(r'\s*\((?:color|...|vitamin [a-z0-9]+)\)\s*', '', s, flags=re.IGNORECASE)
RECURSIVE sub_descriptors(_)
sub_descriptors(s) ==
    IF s = <<>> THEN <<>>
    ELSE LET k == SpaceRun(s, 1)
             rest == Drop(s, k)
             d == IF rest # <<>> /\ rest[1] = "(" THEN descriptor_len(lower(Tail(rest))) ELSE 0
         IN  IF d > 0
             THEN sub_descriptors(Drop(rest, 1 + d + SpaceRun(rest, 2 + d)))
             ELSE <<s[1]>> \o sub_descriptors(Tail(s))

\* re.sub(r'\s*\[vitamin b\d\]\s*', '', s, flags=re.IGNORECASE)
RECURSIVE sub_vitamin_b(_)
sub_vitamin_b(s) ==
    IF s = <<>> THEN <<>>
    ELSE LET k == SpaceRun(s, 1)
             rest == Drop(s, k)
             hit == /\ Len(rest) >= 12
                    /\ rest[1] = "["
                    /\ lower(SubSeq(rest, 1, 10)) = <<"[", "v", "i", "t", "a", "m", "i", "n", " ", "b">>
                    /\ rest[11] \in Digits
                    /\ rest[12] = "]"
         IN  IF hit
             THEN sub_vitamin_b(Drop(rest, 12 + SpaceRun(rest, 13)))
             ELSE <<s[1]>> \o sub_vitamin_b(Tail(s))

\* index of the first parenthesis of s at or after i, 0 when there is none
NextParen(s, i) ==
    LET ps == {j \in i..Len(s) : s[j] \in {"(", ")"}}
    IN  IF ps = {} THEN 0 ELSE Min(ps)

\* r'\(([^()]*?(?:\([^()]*?\)[^()]*?)*?)\)' with its opening parenthesis
\* matched just before s[i]: the index of the closing parenthesis of the
\* match, 0 when the pattern does not match there
RECURSIVE paren_close(_, _)
paren_close(s, i) ==
    LET q == NextParen(s, i)
        r == NextParen(s, q + 1)
    IN  IF q = 0 THEN 0
        ELSE IF s[q] = ")" THEN q
        ELSE IF r = 0 \/ s[r] = "(" THEN 0
        ELSE paren_close(s, r + 1)

\* re.findall of that pattern: the contents of the groups, scanning from s[i]
RECURSIVE parenthetical_matches(_, _)
parenthetical_matches(s, i) ==
    IF i > Len(s) THEN <<>>
    ELSE LET e == IF s[i] = "(" THEN paren_close(s, i + 1) ELSE 0
         IN  IF e > 0
             THEN <<SubSeq(s, i + 1, e - 1)>> \o parenthetical_matches(s, e + 1)
             ELSE parenthetical_matches(s, i + 1)

\* re.sub of that pattern with '': the text outside the groups, from s[i]
RECURSIVE remove_parentheticals(_, _)
remove_parentheticals(s, i) ==
    IF i > Len(s) THEN <<>>
    ELSE LET e == IF s[i] = "(" THEN paren_close(s, i + 1) ELSE 0
         IN  IF e > 0
             THEN remove_parentheticals(s, e + 1)
             ELSE <<s[i]>> \o remove_parentheticals(s, i + 1)

(***************************************************************************)
(* load_data_lookups of app.py: the Reference Index                        *)
(***************************************************************************)

\* the characters r'[^a-z0-9\s\&\.\-#]' keeps
CanonicalChars == LowerAlnum \cup {" ", "&", ".", "-", "#"}

\* the characters r'[^a-z0-9\s\&\.\-#\(\)]' keeps
AliasChars == CanonicalChars \cup {"(", ")"}

\* normalized_canonical_name_for_key
canonical_key(name) ==
    replace(collapse_spaces(strip(keep_chars(lower(name), CanonicalChars))),
            <<"n", "o", ".">>, <<"n", "o", " ">>)

\* normalized_alias
alias_key(name) ==
    replace(collapse_spaces(strip(keep_chars(lower(name), AliasChars))),
            <<"n", "o", ".">>, <<"n", "o", " ">>)

\* normalized_ingredient
common_key(ingredient) ==
    collapse_spaces(strip(keep_chars(lower(ingredient), AliasChars)))

\* the hand-written aliases: <<text looked for in the canonical key, aliases>>
CuratedAliases ==
    <<<<<<"f", "d", "&", "c", " ", "r", "e", "d", " ", "n", "o", " ", "4", "0">>,
        {<<"r", "e", "d", " ", "4", "0">>,
         <<"r", "e", "d", " ", "#", "4", "0">>}>>,
      <<<<"f", "d", "&", "c", " ", "y", "e", "l", "l", "o", "w", " ", "n", "o", " ", "5">>,
        {<<"y", "e", "l", "l", "o", "w", " ", "5">>,
         <<"y", "e", "l", "l", "o", "w", " ", "#", "5">>}>>,
      <<<<"f", "d", "&", "c", " ", "b", "l", "u", "e", " ", "n", "o", " ", "1">>,
        {<<"b", "l", "u", "e", " ", "1">>,
         <<"b", "l", "u", "e", " ", "#", "1">>}>>,
      <<<<"c", "a", "r", "a", "m", "e", "l">>,
        {<<"c", "a", "r", "a", "m", "e", "l", " ", "c", "o", "l", "o", "r">>}>>,
      <<<<"p", "h", "o", "s", "p", "h", "o", "r", "i", "c", " ", "a", "c", "i", "d">>,
        {<<"p", "h", "o", "s", "p", "h", "o", "r", "i", "c", " ", "a", "c", "i", "d">>}>>,
      <<<<"s", "o", "d", "i", "u", "m", " ", "b", "i", "c", "a", "r", "b", "o", "n", "a", "t", "e">>,
        {<<"b", "a", "k", "i", "n", "g", " ", "s", "o", "d", "a">>}>>,
      <<<<"s", "u", "c", "r", "o", "s", "e">>,
        {<<"s", "u", "g", "a", "r">>,
         <<"c", "a", "n", "e", " ", "s", "u", "g", "a", "r">>,
         <<"p", "u", "r", "e", " ", "c", "a", "n", "e", " ", "s", "u", "g", "a", "r">>}>>,
      <<<<"s", "o", "d", "i", "u", "m", " ", "c", "h", "l", "o", "r", "i", "d", "e">>,
        {<<"s", "a", "l", "t">>}>>,
      <<<<"m", "o", "n", "o", "-", " ", "a", "n", "d", " ", "d", "i", "g", "l", "y", "c", "e", "r", "i", "d", "e", "s">>,
        {<<"m", "o", "n", "o", " ", "a", "n", "d", " ", "d", "i", "g", "l", "y", "c", "e", "r", "i", "d", "e", "s">>}>>,
      <<<<"c", "e", "l", "l", "u", "l", "o", "s", "e", " ", "g", "u", "m">>,
        {<<"c", "e", "l", "l", "u", "l", "o", "s", "e", " ", "g", "u", "m">>,
         <<"c", "a", "r", "b", "o", "x", "y", "m", "e", "t", "h", "y", "l", "c", "e", "l", "l", "u", "l", "o", "s", "e">>,
         <<"c", "m", "c">>}>>,
      <<<<"a", "n", "n", "a", "t", "t", "o">>,
        {<<"a", "n", "n", "a", "t", "t", "o", " ", "(", "c", "o", "l", "o", "r", ")">>}>>,
      <<<<"g", "a", "r", "l", "i", "c">>,
        {<<"g", "a", "r", "l", "i", "c">>,
         <<"d", "e", "h", "y", "d", "r", "a", "t", "e", "d", " ", "g", "a", "r", "l", "i", "c">>,
         <<"g", "a", "r", "l", "i", "c", " ", "p", "o", "w", "d", "e", "r">>}>>>>

curated_names(key) ==
    UNION {CuratedAliases[k][2] : k \in {k \in 1..Len(CuratedAliases) :
                                           Contains(key, CuratedAliases[k][1])}}

\* names_to_add of one entry
names_to_add(entry, key) ==
    (IF entry.substance # <<>> THEN {entry.substance} ELSE {})
    \cup {entry.heading, key}
    \cup Range(entry.other_names)
    \cup curated_names(key)

EmptyDict == [k \in {} |-> <<>>]

\* dict with d[k] = v for every k of ks
SetAll(d, ks, v) == [k \in DOMAIN d \cup ks |-> IF k \in ks THEN v ELSE d[k]]

\* C21 variant of the loop: an alias that is registered already keeps the
\* canonical name it has.
RECURSIVE C21_load_additives_first_wins(_, _, _)
C21_load_additives_first_wins(entries, i, idx) ==
    IF i > Len(entries) THEN idx
    ELSE IF ~entries[i].is_dict THEN idx
    ELSE IF entries[i].heading = <<>>
    THEN C21_load_additives_first_wins(entries, i + 1, idx)
    ELSE LET key == canonical_key(entries[i].heading)
             aliases == {alias_key(n) : n \in {n \in names_to_add(entries[i], key) : n # <<>>}}
                        \ {<<>>}
         IN  C21_load_additives_first_wins(entries, i + 1,
                 [additives |-> SetAll(idx.additives, aliases \ DOMAIN idx.additives, key),
                  details |-> SetAll(idx.details, {key}, entries[i])])

\* the loop over additives_raw from entry i on; idx holds ADDITIVES_LOOKUP
\* and FDA_SUBSTANCE_DETAILS_LOOKUP.  An element that is no JSON object
\* raises at entry.get, and the except clause ends the loop.
RECURSIVE load_additives(_, _, _)
load_additives(entries, i, idx) ==
    IF i > Len(entries) THEN idx
    ELSE IF ~entries[i].is_dict THEN idx
    ELSE IF entries[i].heading = <<>> THEN load_additives(entries, i + 1, idx)
    ELSE LET key == canonical_key(entries[i].heading)
             aliases == {alias_key(n) : n \in {n \in names_to_add(entries[i], key) : n # <<>>}}
                        \ {<<>>}
         IN  load_additives(entries, i + 1,
                 [additives |-> SetAll(idx.additives, aliases, key),
                  details |-> SetAll(idx.details, {key}, entries[i])])

\* the loop over common_ingredients_raw from element i on; an element that
\* is no string raises at ingredient.lower(), and the except clause ends the loop
RECURSIVE load_common(_, _, _)
load_common(items, i, d) ==
    IF i > Len(items) THEN d
    ELSE IF ~items[i].is_str THEN d
    ELSE load_common(items, i + 1, SetAll(d, {common_key(items[i].text)}, items[i].text))

(***************************************************************************)
(* calculate_nova_score                                                    *)
(***************************************************************************)

\* C9 variant of app.py's calculate_nova_score: rule 2 asks for more than 3
\* unidentified ingredients.
C9_calculate_nova_score_more_than_3(identified_fda_non_common, identified_fda_common, identified_common_ingredients_only, truly_unidentified_ingredients) ==
    IF identified_fda_non_common # {}
    THEN <<4, "Ultra-Processed Food">>
    ELSE IF Cardinality(truly_unidentified_ingredients) > 3
    THEN <<4, "Ultra-Processed Food (Unidentified Ingredients)">>
    ELSE IF \/ (identified_common_ingredients_only # {} /\ identified_fda_common # {})
            \/ /\ Cardinality(identified_common_ingredients_only) > 0
               /\ identified_fda_common = {}
               /\ truly_unidentified_ingredients = {}
    THEN <<3, "Processed Food">>
    ELSE IF /\ identified_fda_common # {}
            /\ identified_common_ingredients_only = {}
            /\ truly_unidentified_ingredients = {}
    THEN <<2, "Processed Culinary Ingredient">>
    ELSE IF /\ identified_fda_common = {}
            /\ identified_common_ingredients_only = {}
            /\ truly_unidentified_ingredients = {}
    THEN <<1, "Unprocessed or Minimally Processed Food (No Ingredients Listed)">>
    ELSE <<3, "Processed Food (Categorization Ambiguous)">>

\* app.py
calculate_nova_score(identified_fda_non_common, identified_fda_common, identified_common_ingredients_only, truly_unidentified_ingredients) ==
    IF identified_fda_non_common # {}
    THEN <<4, "Ultra-Processed Food">>
    ELSE IF /\ truly_unidentified_ingredients # {}
            /\ Cardinality(truly_unidentified_ingredients) > 2
    THEN <<4, "Ultra-Processed Food (Unidentified Ingredients)">>
    ELSE IF \/ (identified_common_ingredients_only # {} /\ identified_fda_common # {})
            \/ /\ Cardinality(identified_common_ingredients_only) > 0
               /\ identified_fda_common = {}
               /\ identified_fda_non_common = {}
               /\ truly_unidentified_ingredients = {}
    THEN <<3, "Processed Food">>
    ELSE IF /\ identified_fda_common # {}
            /\ identified_common_ingredients_only = {}
            /\ truly_unidentified_ingredients = {}
    THEN <<2, "Processed Culinary Ingredient">>
    ELSE IF /\ identified_common_ingredients_only # {}
            /\ identified_fda_common = {}
            /\ identified_fda_non_common = {}
            /\ truly_unidentified_ingredients = {}
    THEN <<1, "Unprocessed or Minimally Processed Food">>
    ELSE IF /\ identified_fda_non_common = {}
            /\ identified_fda_common = {}
            /\ identified_common_ingredients_only = {}
            /\ truly_unidentified_ingredients = {}
    THEN <<1, "Unprocessed or Minimally Processed Food (No Ingredients Listed)">>
    ELSE <<3, "Processed Food (Categorization Ambiguous)">>

\* C7 variant of app_old.py's calculate_nova_score: the test of the second
\* disjunct of rule 3 is "> 0" where the code has "> 1".
C7_calculate_nova_score_single_common(identified_fda_non_common, identified_fda_common, identified_common_ingredients_only, truly_unidentified_ingredients) ==
    IF identified_fda_non_common # {}
    THEN <<4, "Ultra-Processed Food">>
    ELSE IF Cardinality(truly_unidentified_ingredients) > 2
    THEN <<4, "Ultra-Processed Food (Unidentified Ingredients)">>
    ELSE IF identified_common_ingredients_only # {} /\ identified_fda_common # {}
    THEN <<3, "Processed Food">>
    ELSE IF /\ Cardinality(identified_common_ingredients_only) > 0
            /\ identified_fda_common = {}
            /\ truly_unidentified_ingredients = {}
    THEN <<3, "Processed Food (Simple Combination)">>
    ELSE IF /\ identified_fda_common # {}
            /\ identified_common_ingredients_only = {}
            /\ truly_unidentified_ingredients = {}
    THEN <<2, "Processed Culinary Ingredient">>
    ELSE IF /\ identified_fda_common = {}
            /\ identified_common_ingredients_only = {}
            /\ truly_unidentified_ingredients = {}
    THEN <<1, "Unprocessed or Minimally Processed Food (No Ingredients Listed)">>
    ELSE <<3, "Processed Food (Categorization Ambiguous)">>

\* app_old.py and api/gtin-lookup.py
calculate_nova_score_old(identified_fda_non_common, identified_fda_common, identified_common_ingredients_only, truly_unidentified_ingredients) ==
    IF identified_fda_non_common # {}
    THEN <<4, "Ultra-Processed Food">>
    ELSE IF /\ truly_unidentified_ingredients # {}
            /\ Cardinality(truly_unidentified_ingredients) > 2
    THEN <<4, "Ultra-Processed Food (Unidentified Ingredients)">>
    ELSE IF /\ \/ (identified_common_ingredients_only # {} /\ identified_fda_common # {})
               \/ /\ Cardinality(identified_common_ingredients_only) > 0
                  /\ identified_fda_common = {}
                  /\ identified_fda_non_common = {}
                  /\ truly_unidentified_ingredients = {}
            /\ identified_fda_common # {}
            /\ identified_common_ingredients_only # {}
    THEN <<3, "Processed Food">>
    ELSE IF /\ \/ (identified_common_ingredients_only # {} /\ identified_fda_common # {})
               \/ /\ Cardinality(identified_common_ingredients_only) > 0
                  /\ identified_fda_common = {}
                  /\ identified_fda_non_common = {}
                  /\ truly_unidentified_ingredients = {}
            /\ Cardinality(identified_common_ingredients_only) > 1
            /\ identified_fda_common = {}
            /\ identified_fda_non_common = {}
            /\ truly_unidentified_ingredients = {}
    THEN <<3, "Processed Food (Simple Combination)">>
    ELSE IF /\ identified_fda_common # {}
            /\ identified_common_ingredients_only = {}
            /\ truly_unidentified_ingredients = {}
    THEN <<2, "Processed Culinary Ingredient">>
    ELSE IF /\ identified_common_ingredients_only # {}
            /\ identified_fda_common = {}
            /\ identified_fda_non_common = {}
            /\ truly_unidentified_ingredients = {}
    THEN <<1, "Unprocessed or Minimally Processed Food">>
    ELSE IF /\ identified_fda_non_common = {}
            /\ identified_fda_common = {}
            /\ identified_common_ingredients_only = {}
            /\ truly_unidentified_ingredients = {}
    THEN <<1, "Unprocessed or Minimally Processed Food (No Ingredients Listed)">>
    ELSE <<3, "Processed Food (Categorization Ambiguous)">>

(***************************************************************************)
(* analyze_ingredients of app.py                                           *)
(***************************************************************************)

\* Step 1: cleaned_string
cleaned_string(text) ==
    sub_vitamin_b(sub_descriptors(sub_and_or(strip(strip_label(text)))))

\* Steps 2 and 3: components, the segmented phrases
segment(text) ==
    LET cleaned == cleaned_string(text)
        main_components_string == strip(remove_parentheticals(cleaned, 1))
        matches == parenthetical_matches(cleaned, 1)
        sub_components[k \in 0..Len(matches)] ==
            IF k = 0 THEN <<>>
            ELSE sub_components[k - 1]
                 \o stripped_nonempty(split_commas_and(matches[k], <<>>))
    IN  stripped_nonempty(split_commas(main_components_string, <<>>))
        \o sub_components[Len(matches)]

\* normalized_component
normalize_component(original_component) ==
    strip(rstrip_chars(
        replace(collapse_spaces(strip(lower(original_component))), <<"n", "o", ".">>, <<"n", "o", " ">>),
        {".", ",", "'", "\""}))

\* the inner loop "for j in range(len(words), i, -1)" from start i: the end
\* of the longest window words[i..j] that is a key of lookup, 0 when none is
first_hit(words, i, lookup) ==
    LET js == {j \in i..Len(words) : join(SubSeq(words, i, j)) \in DOMAIN lookup}
    IN  IF js = {} THEN 0 ELSE CHOOSE j \in js : \A k \in js : k <= j

\* both loops: the value found for the first start i whose first hit has a
\* truthy value; <<>> stands for None and for the empty string alike
first_match(words, lookup) ==
    LET val(i) == LET j == first_hit(words, i, lookup)
                  IN  IF j = 0 THEN <<>> ELSE lookup[join(SubSeq(words, i, j))]
        starts == {i \in 1..Len(words) : val(i) # <<>>}
    IN  IF starts = {} THEN <<>> ELSE val(Min(starts))

\* Pass 1 of the loop body: matched_additive_canonical
matched_additive(words) == first_match(words, ADDITIVES_LOOKUP)

\* the entries of COMMON_INGREDIENTS_LOOKUP that Pass 2 accepts: "phrase not
\* in ADDITIVES_LOOKUP or ADDITIVES_LOOKUP[phrase] not in COMMON_FDA_SUBSTANCES_SET"
accepted_common ==
    LET keys == {phrase \in DOMAIN COMMON_INGREDIENTS_LOOKUP :
                    \/ phrase \notin DOMAIN ADDITIVES_LOOKUP
                    \/ ADDITIVES_LOOKUP[phrase] \notin COMMON_FDA_SUBSTANCES_SET}
    IN  [phrase \in keys |-> COMMON_INGREDIENTS_LOOKUP[phrase]]

\* Pass 2 of the loop body: matched_common_ingredient_original_casing
matched_common(words) == first_match(words, accepted_common)

\* FDA_SUBSTANCE_DETAILS_LOOKUP.get(canonical, {}).get("Substance Name (Heading)",
\*                                                     canonical.title())
display_name(canonical) ==
    IF canonical \in DOMAIN FDA_SUBSTANCE_DETAILS_LOOKUP
    THEN FDA_SUBSTANCE_DETAILS_LOOKUP[canonical].heading
    ELSE title(canonical)

Skipped == [adds |-> {}, name |-> <<>>, categorized |-> FALSE, skipped |-> TRUE]

Added(collection, name, categorized) ==
    [adds |-> {collection}, name |-> name, categorized |-> categorized, skipped |-> FALSE]

\* C5 variant: a matched additive of the common substances is added to the
\* common ingredients as well.
C5_classify_component_twice(original_component) ==
    LET normalized_component == normalize_component(original_component)
        words == split_words(normalized_component)
        matched_additive_canonical == matched_additive(words)
        matched_common_ingredient_original_casing == matched_common(words)
    IN  IF normalized_component = <<>> THEN Skipped
        ELSE IF matched_additive_canonical # <<>>
        THEN IF matched_additive_canonical \in COMMON_FDA_SUBSTANCES_SET
             THEN [adds |-> {"identified_fda_common",
                             "identified_common_ingredients_only"},
                   name |-> display_name(matched_additive_canonical),
                   categorized |-> TRUE, skipped |-> FALSE]
             ELSE Added("identified_fda_non_common",
                        display_name(matched_additive_canonical), TRUE)
        ELSE IF matched_common_ingredient_original_casing # <<>>
        THEN Added("identified_common_ingredients_only",
                   matched_common_ingredient_original_casing, TRUE)
        ELSE Added("truly_unidentified_ingredients", original_component, FALSE)

\* C6 variant: the test on COMMON_FDA_SUBSTANCES_SET is inverted.
C6_classify_component_inverted(original_component) ==
    LET normalized_component == normalize_component(original_component)
        words == split_words(normalized_component)
        matched_additive_canonical == matched_additive(words)
        matched_common_ingredient_original_casing == matched_common(words)
    IN  IF normalized_component = <<>> THEN Skipped
        ELSE IF matched_additive_canonical # <<>>
        THEN IF matched_additive_canonical \notin COMMON_FDA_SUBSTANCES_SET
             THEN Added("identified_fda_common",
                        display_name(matched_additive_canonical), TRUE)
             ELSE Added("identified_fda_non_common",
                        display_name(matched_additive_canonical), TRUE)
        ELSE IF matched_common_ingredient_original_casing # <<>>
        THEN Added("identified_common_ingredients_only",
                   matched_common_ingredient_original_casing, TRUE)
        ELSE Added("truly_unidentified_ingredients", original_component, FALSE)

\* C24 variant: the common ingredients are searched before the additives.
C24_classify_component_common_first(original_component) ==
    LET normalized_component == normalize_component(original_component)
        words == split_words(normalized_component)
        matched_additive_canonical == matched_additive(words)
        matched_common_ingredient_original_casing == matched_common(words)
    IN  IF normalized_component = <<>> THEN Skipped
        ELSE IF matched_common_ingredient_original_casing # <<>>
        THEN Added("identified_common_ingredients_only",
                   matched_common_ingredient_original_casing, TRUE)
        ELSE IF matched_additive_canonical # <<>>
        THEN IF matched_additive_canonical \in COMMON_FDA_SUBSTANCES_SET
             THEN Added("identified_fda_common",
                        display_name(matched_additive_canonical), TRUE)
             ELSE Added("identified_fda_non_common",
                        display_name(matched_additive_canonical), TRUE)
        ELSE Added("truly_unidentified_ingredients", original_component, FALSE)

\* one pass of "for original_component in components": the collections that
\* receive an add, the name added, and whether categorized_items_count grows
classify_component(original_component) ==
    LET normalized_component == normalize_component(original_component)
        words == split_words(normalized_component)
        matched_additive_canonical == matched_additive(words)
        matched_common_ingredient_original_casing == matched_common(words)
    IN  IF normalized_component = <<>> THEN Skipped
        ELSE IF matched_additive_canonical # <<>>
        THEN IF matched_additive_canonical \in COMMON_FDA_SUBSTANCES_SET
             THEN Added("identified_fda_common",
                        display_name(matched_additive_canonical), TRUE)
             ELSE Added("identified_fda_non_common",
                        display_name(matched_additive_canonical), TRUE)
        ELSE IF matched_common_ingredient_original_casing # <<>>
        THEN Added("identified_common_ingredients_only",
                   matched_common_ingredient_original_casing, TRUE)
        ELSE Added("truly_unidentified_ingredients", original_component, FALSE)

\* data_completeness_level, from the exact quotient
completeness_level(categorized_items_count, total_analyzed_items) ==
    IF total_analyzed_items = 0 THEN "High"
    ELSE IF categorized_items_count * 100 >= 90 * total_analyzed_items THEN "High"
    ELSE IF categorized_items_count * 100 >= 70 * total_analyzed_items THEN "Medium"
    ELSE "Low"

\* data_score_percentage, rounded down to a whole number
data_score_percentage(categorized_items_count, total_analyzed_items) ==
    IF total_analyzed_items = 0 THEN 100
    ELSE LET q == (categorized_items_count * 100) \div total_analyzed_items
         IN  IF q > 100 THEN 100 ELSE IF q < 0 THEN 0 ELSE q

\* total_analyzed_items = len(components)
total_analyzed(components) == Len(components)

\* round(x, 2) of the percentage 100 * part / whole, in hundredths of a
\* percent (no quotient of counts up to MaxItems + 1 lies halfway)
round2(part, whole) == (20000 * part + whole) \div (2 * whole)

\* ingredient_parser.py: calculate_data_completeness on a list of
\* total_ingredients parsed ingredients, unidentified of them unidentified;
\* the score is in hundredths of a percent
calculate_data_completeness(total_ingredients, unidentified) ==
    LET identified_ingredients == total_ingredients - unidentified
    IN  IF total_ingredients = 0 THEN <<0, "No Ingredients Provided">>
        ELSE <<round2(identified_ingredients, total_ingredients),
               IF identified_ingredients * 100 >= 90 * total_ingredients THEN "High"
               ELSE IF identified_ingredients * 100 >= 60 * total_ingredients THEN "Medium"
               ELSE "Low">>

\* ingredient_parser_service.py: data_score and completeness of gtin_lookup;
\* the score is in hundredths of a percent
service_data_score(total_components, identified_components) ==
    <<IF total_components > 0 THEN round2(identified_components, total_components) ELSE 0,
      IF total_components > 0 /\ identified_components * 100 >= 90 * total_components
      THEN "High"
      ELSE IF total_components > 0 /\ identified_components * 100 >= 70 * total_components
      THEN "Medium"
      ELSE "Low">>

\* the value analyze_ingredients returns, with the components and what the
\* loop did with each of them
analyze_components(components) ==
    LET classified == [k \in 1..Len(components) |-> classify_component(components[k])]
        collection(c) == {classified[k].name :
                            k \in {k \in 1..Len(components) : c \in classified[k].adds}}
        total_analyzed_items == total_analyzed(components)
        categorized_items_count ==
            Cardinality({k \in 1..Len(components) : classified[k].categorized})
        nova == calculate_nova_score(collection("identified_fda_non_common"),
                                     collection("identified_fda_common"),
                                     collection("identified_common_ingredients_only"),
                                     collection("truly_unidentified_ingredients"))
    IN  [identified_fda_non_common |-> collection("identified_fda_non_common"),
         identified_fda_common |-> collection("identified_fda_common"),
         identified_common_ingredients_only |->
             collection("identified_common_ingredients_only"),
         truly_unidentified_ingredients |-> collection("truly_unidentified_ingredients"),
         data_score |-> data_score_percentage(categorized_items_count,
                                              total_analyzed_items),
         data_completeness_level |-> completeness_level(categorized_items_count,
                                                        total_analyzed_items),
         nova_score |-> nova[1],
         nova_description |-> nova[2],
         components |-> components,
         classified |-> classified,
         categorized_items_count |-> categorized_items_count,
         total_analyzed_items |-> total_analyzed_items]

analyze_ingredients(text) ==
    IF text = <<>>
    THEN LET nova == calculate_nova_score({}, {}, {}, {})
         IN  [identified_fda_non_common |-> {}, identified_fda_common |-> {},
              identified_common_ingredients_only |-> {},
              truly_unidentified_ingredients |-> {},
              data_score |-> 100, data_completeness_level |-> "High",
              nova_score |-> nova[1], nova_description |-> nova[2],
              components |-> <<>>, classified |-> <<>>,
              categorized_items_count |-> 0, total_analyzed_items |-> 0]
    ELSE analyze_components(segment(text))

(***************************************************************************)
(* The state of the application before it is used                         *)
(***************************************************************************)

Entry(heading, substance, other_names) ==
    [is_dict |-> TRUE, heading |-> heading, substance |-> substance,
     other_names |-> other_names]

\* an element of the substance list that is no JSON object
NotADict == [is_dict |-> FALSE, heading |-> <<>>, substance |-> <<>>, other_names |-> <<>>]

Str(text) == [is_str |-> TRUE, text |-> text]

\* a file that is missing or is no JSON
MissingFile == [readable |-> FALSE, data |-> <<>>]

File(data) == [readable |-> TRUE, data |-> data]

NoAnalysis ==
    [identified_fda_non_common |-> {}, identified_fda_common |-> {},
     identified_common_ingredients_only |-> {}, truly_unidentified_ingredients |-> {},
     data_score |-> 0, data_completeness_level |-> "", nova_score |-> 0,
     nova_description |-> "", components |-> <<>>, classified |-> <<>>,
     categorized_items_count |-> 0, total_analyzed_items |-> 0]

NoNovaArgs ==
    [identified_fda_non_common |-> {}, identified_fda_common |-> {},
     identified_common_ingredients_only |-> {}, truly_unidentified_ingredients |-> {}]

NoNovaResult == [app_old |-> <<0, "">>, app |-> <<0, "">>]

\* the module-level assignments of app.py, before load_data_lookups runs
AppImported ==
    /\ ADDITIVES_LOOKUP = EmptyDict
    /\ COMMON_INGREDIENTS_LOOKUP = EmptyDict
    /\ COMMON_FDA_SUBSTANCES_SET = {}
    /\ FDA_SUBSTANCE_DETAILS_LOOKUP = EmptyDict
    /\ app_pc = "import"
    /\ ingredients_string = <<>>
    /\ analysis = NoAnalysis
    /\ calls = <<>>

AnalyzeUnused ==
    /\ additives_file = MissingFile
    /\ common_file = MissingFile
    /\ AppImported

NoScoreArgs == [total |-> 0, unidentified |-> 0]

NoScoreResult ==
    [app |-> <<0, "">>, ingredient_parser |-> <<0, "">>, service |-> <<0, "">>]

ScoreUnused ==
    /\ score_args = NoScoreArgs
    /\ score_result = NoScoreResult

NovaUnused ==
    /\ nova_args = NoNovaArgs
    /\ nova_result = NoNovaResult
    /\ ScoreUnused

(***************************************************************************)
(* The Airtable table                                                      *)
(***************************************************************************)

\* airtable.search('gtin_upc', gtin): the rows with that gtin, in table order
search(table, gtin) == SelectSeq(table, LAMBDA r : r.gtin_upc = gtin)

IndexOfId(table, id) == CHOOSE i \in 1..Len(table) : table[i].id = id

HasId(table, id) == \E i \in 1..Len(table) : table[i].id = id

HeldIds == {req[p].record_id : p \in Workers} \cup {req[p].victim : p \in Workers}

\* the id Airtable gives a new row: never one in use or still held by a handler
FreshId(table) == Min(RecordIds \ ({r.id : r \in Range(table)} \cup HeldIds))

(***************************************************************************)
(* delete_least_valuable_row: the choice of the row                        *)
(***************************************************************************)

\* datetime.fromisoformat with the datetime.min fallback; a missing or
\* unparsable last_access is written -1
last_access_dt(r) == IF r.last_access < 0 THEN DATETIME_MIN ELSE r.last_access

\* C15 variant: a row aged exactly the window still gets the bonus.
C15_effective_score_inclusive(r, t) ==
    r.lookup_count
    + (IF t - last_access_dt(r) <= FRESHNESS_WINDOW_DAYS THEN FRESHNESS_BONUS ELSE 0)

effective_score(r, t) ==
    r.lookup_count
    + (IF t - last_access_dt(r) < FRESHNESS_WINDOW_DAYS THEN FRESHNESS_BONUS ELSE 0)

\* sorted(records, key=(effective_score, last_access_dt))[0]; sorted is stable
KeyLess(a, b, t) ==
    \/ effective_score(a, t) < effective_score(b, t)
    \/ /\ effective_score(a, t) = effective_score(b, t)
       /\ last_access_dt(a) < last_access_dt(b)

\* C3 variant: the first row in the order of lookup_count, then last_access,
\* without the freshness bonus.
C3_least_valuable_by_count(records, t) ==
    CHOOSE i \in 1..Len(records) :
        \A j \in 1..Len(records) :
            LET less(a, b) ==
                    \/ a.lookup_count < b.lookup_count
                    \/ /\ a.lookup_count = b.lookup_count
                       /\ last_access_dt(a) < last_access_dt(b)
            IN  /\ ~less(records[j], records[i])
                /\ (j < i => less(records[i], records[j]))

least_valuable(records, t) ==
    CHOOSE i \in 1..Len(records) :
        \A j \in 1..Len(records) :
            /\ ~KeyLess(records[j], records[i], t)
            /\ (j < i => KeyLess(records[i], records[j], t))

\* app.py's delete_least_valuable_row: sorted(records, key=(lookup_count,
\* last_access))[0], the last_access strings compared as written; a missing
\* last_access sorts before every timestamp
least_valuable_app(records) ==
    CHOOSE i \in 1..Len(records) :
        \A j \in 1..Len(records) :
            LET less(a, b) ==
                    \/ a.lookup_count < b.lookup_count
                    \/ /\ a.lookup_count = b.lookup_count
                       /\ a.last_access < b.last_access
            IN  /\ ~less(records[j], records[i])
                /\ (j < i => less(records[i], records[j]))

(***************************************************************************)
(* gtin_lookup, one Airtable or USDA call per step                         *)
(***************************************************************************)

Idle == [pc |-> "idle", gtin |-> "", record_id |-> 0, lookup_count |-> 0,
         current_row_count |-> 0, victim |-> 0, status |-> "none"]

CacheUnused ==
    /\ airtable = <<>>
    /\ now = 0
    /\ req = [p \in Workers |-> Idle]
    /\ served = 0
    /\ hits = [i \in RecordIds |-> 0]

InitCache ==
    /\ airtable = <<>>
    /\ now = 0
    /\ req = [p \in Workers |-> Idle]
    /\ served = 0
    /\ hits = [i \in RecordIds |-> 0]
    /\ AnalyzeUnused
    /\ NovaUnused

\* C17 variant: a miss leaves a row for the GTIN behind, with no lookups yet.
C17_Search_creates_on_miss(p) ==
    /\ req[p].pc = "idle"
    /\ served < MaxRequests
    /\ \E g \in GTINS :
         LET records == search(airtable, g) IN
         /\ req' = [req EXCEPT ![p] =
                      IF records # <<>>
                      THEN [Idle EXCEPT !.pc = "update", !.gtin = g,
                                        !.record_id = records[1].id,
                                        !.lookup_count = records[1].lookup_count]
                      ELSE [Idle EXCEPT !.pc = "fetch", !.gtin = g]]
         /\ airtable' = IF records # <<>> THEN airtable
                         ELSE Append(airtable, [id |-> FreshId(airtable), gtin_upc |-> g,
                                                lookup_count |-> 0, last_access |-> now])
    /\ served' = served + 1
    /\ UNCHANGED <<now, hits>>
    /\ UNCHANGED <<analyzeVars, novaVars>>

\* a POST /api/gtin-lookup arrives and check_airtable_cache searches the table
Search(p) ==
    /\ req[p].pc = "idle"
    /\ served < MaxRequests
    /\ \E g \in GTINS :
         LET records == search(airtable, g) IN
         req' = [req EXCEPT ![p] =
                   IF records # <<>>
                   THEN [Idle EXCEPT !.pc = "update", !.gtin = g,
                                     !.record_id = records[1].id,
                                     !.lookup_count = records[1].lookup_count]
                   ELSE [Idle EXCEPT !.pc = "fetch", !.gtin = g]]
    /\ served' = served + 1
    /\ UNCHANGED <<airtable, now, hits>>
    /\ UNCHANGED <<analyzeVars, novaVars>>

\* C25 variant: after a hit the handler goes on to the USDA fetch.
C25_Update_then_fetch(p) ==
    /\ req[p].pc = "update"
    /\ IF HasId(airtable, req[p].record_id)
       THEN LET i == IndexOfId(airtable, req[p].record_id) IN
            /\ airtable' = [airtable EXCEPT
                              ![i].lookup_count = req[p].lookup_count + 1,
                              ![i].last_access = now]
            /\ hits' = [hits EXCEPT ![req[p].record_id] = @ + 1]
       ELSE UNCHANGED <<airtable, hits>>
    /\ req' = [req EXCEPT ![p] = [Idle EXCEPT !.pc = "fetch", !.gtin = req[p].gtin]]
    /\ UNCHANGED <<now, served>>
    /\ UNCHANGED <<analyzeVars, novaVars>>

\* check_airtable_cache: airtable.update(record_id, {lookup_count + 1, now});
\* the update of a row deleted meanwhile raises, the except clause returns None
Update(p) ==
    /\ req[p].pc = "update"
    /\ IF HasId(airtable, req[p].record_id)
       THEN LET i == IndexOfId(airtable, req[p].record_id) IN
            /\ airtable' = [airtable EXCEPT
                              ![i].lookup_count = req[p].lookup_count + 1,
                              ![i].last_access = now]
            /\ hits' = [hits EXCEPT ![req[p].record_id] = @ + 1]
            /\ req' = [req EXCEPT ![p] = [Idle EXCEPT !.status = "found_in_cache"]]
       ELSE /\ req' = [req EXCEPT ![p] = [Idle EXCEPT !.pc = "fetch",
                                                      !.gtin = req[p].gtin]]
            /\ UNCHANGED <<airtable, hits>>
    /\ UNCHANGED <<now, served>>
    /\ UNCHANGED <<analyzeVars, novaVars>>

\* fetch_from_usda_api: the product data, or None
Fetch(p) ==
    /\ req[p].pc = "fetch"
    /\ \E found \in BOOLEAN :
         req' = [req EXCEPT ![p] =
                   IF found
                   THEN [Idle EXCEPT !.pc = "count", !.gtin = req[p].gtin]
                   ELSE [Idle EXCEPT !.status = "not_found"]]
    /\ UNCHANGED <<airtable, now, served, hits>>
    /\ UNCHANGED <<analyzeVars, novaVars>>

\* C13 variant: the capacity test is "current_row_count > AIRTABLE_MAX_ROWS".
C13_Count_above_capacity(p) ==
    /\ req[p].pc = "count"
    /\ req' = [req EXCEPT ![p] =
                 [@ EXCEPT !.current_row_count = Len(airtable),
                           !.pc = IF Len(airtable) > AIRTABLE_MAX_ROWS
                                  THEN "evict" ELSE "insert"]]
    /\ UNCHANGED <<airtable, now, served, hits>>
    /\ UNCHANGED <<analyzeVars, novaVars>>

\* count_airtable_rows and the capacity test of gtin_lookup
Count(p) ==
    /\ req[p].pc = "count"
    /\ req' = [req EXCEPT ![p] =
                 [@ EXCEPT !.current_row_count = Len(airtable),
                           !.pc = IF Len(airtable) >= AIRTABLE_MAX_ROWS
                                  THEN "evict" ELSE "insert"]]
    /\ UNCHANGED <<airtable, now, served, hits>>
    /\ UNCHANGED <<analyzeVars, novaVars>>

\* delete_least_valuable_row: airtable.get_all and the choice of the row
EvictRead(p) ==
    /\ req[p].pc = "evict"
    /\ req' = [req EXCEPT ![p] =
                 IF airtable # <<>>
                 THEN [@ EXCEPT !.pc = "delete",
                                !.victim = airtable[least_valuable(airtable, now)].id]
                 ELSE [@ EXCEPT !.pc = "insert"]]
    /\ UNCHANGED <<airtable, now, served, hits>>
    /\ UNCHANGED <<analyzeVars, novaVars>>

\* delete_least_valuable_row: airtable.delete(record_id_to_delete); the delete
\* of a row deleted meanwhile raises and is caught
EvictDelete(p) ==
    /\ req[p].pc = "delete"
    /\ airtable' = IF HasId(airtable, req[p].victim)
                   THEN RemoveAt(airtable, IndexOfId(airtable, req[p].victim))
                   ELSE airtable
    /\ req' = [req EXCEPT ![p] = [@ EXCEPT !.pc = "insert", !.victim = 0]]
    /\ UNCHANGED <<now, served, hits>>
    /\ UNCHANGED <<analyzeVars, novaVars>>

\* store_to_airtable: airtable.insert(fields), then the response
Insert(p) ==
    /\ req[p].pc = "insert"
    /\ LET id == FreshId(airtable) IN
       /\ airtable' = Append(airtable, [id |-> id, gtin_upc |-> req[p].gtin,
                                        lookup_count |-> 1, last_access |-> now])
       /\ hits' = [hits EXCEPT ![id] = 0]
    /\ req' = [req EXCEPT ![p] =
                 [Idle EXCEPT !.status = "pulled_from_usda_and_cached"]]
    /\ UNCHANGED <<now, served>>
    /\ UNCHANGED <<analyzeVars, novaVars>>

\* time passes
Tick ==
    /\ \E d \in {1, FRESHNESS_WINDOW_DAYS} :
         /\ now + d <= MaxTime
         /\ now' = now + d
    /\ UNCHANGED <<airtable, req, served, hits>>
    /\ UNCHANGED <<analyzeVars, novaVars>>

Next ==
    \/ \E p \in Workers : Search(p)
    \/ \E p \in Workers : Update(p)
    \/ \E p \in Workers : Fetch(p)
    \/ \E p \in Workers : Count(p)
    \/ \E p \in Workers : EvictRead(p)
    \/ \E p \in Workers : EvictDelete(p)
    \/ \E p \in Workers : Insert(p)
    \/ Tick

Spec == InitCache /\ [][Next]_vars

(***************************************************************************)
(* One handler at a time, started on every table the cache can hold        *)
(***************************************************************************)

LookupCounts == {1, FRESHNESS_BONUS, FRESHNESS_BONUS + 1}

\* last_access values at time StaleDays: missing, stale, aged exactly the
\* window, aged one day less, just written
LastAccesses ==
    {-1, 0, StaleDays - FRESHNESS_WINDOW_DAYS,
     StaleDays - FRESHNESS_WINDOW_DAYS + 1, StaleDays}

\* the tables of n rows: one row per product, ids in insertion order
TablesOf(n) ==
    {[i \in 1..n |-> [id |-> i, gtin_upc |-> GtinNames[i],
                      lookup_count |-> f[i][1], last_access |-> f[i][2]]] :
        f \in [1..n -> LookupCounts \X LastAccesses]}

InitEvict ==
    /\ \E n \in 0..AIRTABLE_MAX_ROWS : airtable \in TablesOf(n)
    /\ now = StaleDays
    /\ req = [p \in Workers |-> Idle]
    /\ served = MaxRequests - 1
    /\ hits = [i \in RecordIds |->
                IF HasId(airtable, i)
                THEN airtable[IndexOfId(airtable, i)].lookup_count - 1 ELSE 0]
    /\ AnalyzeUnused
    /\ NovaUnused

NextEvict ==
    \/ Search(1)
    \/ Update(1)
    \/ Fetch(1)
    \/ Count(1)
    \/ EvictRead(1)
    \/ EvictDelete(1)
    \/ Insert(1)

SpecEvict == InitEvict /\ [][NextEvict]_vars

(***************************************************************************)
(* One handler at a time, with an Airtable insert that can fail            *)
(***************************************************************************)

\* store_to_airtable when airtable.insert raises: the except clause prints
\* and returns, and gtin_lookup answers as after a stored row
InsertFails(p) ==
    /\ req[p].pc = "insert"
    /\ req' = [req EXCEPT ![p] =
                 [Idle EXCEPT !.status = "pulled_from_usda_and_cached"]]
    /\ UNCHANGED <<airtable, now, served, hits>>
    /\ UNCHANGED <<analyzeVars, novaVars>>

NextOutage ==
    \/ NextEvict
    \/ InsertFails(1)

SpecOutage == InitEvict /\ [][NextOutage]_vars

(***************************************************************************)
(* The application: import, load_data_lookups, analyze_ingredients         *)
(***************************************************************************)

CitricAcid == Entry(<<"C", "I", "T", "R", "I", "C", " ", "A", "C", "I", "D">>,
                    <<"C", "I", "T", "R", "I", "C", " ", "A", "C", "I", "D">>, <<>>)

Red40 == Entry(<<"F", "D", "&", "C", " ", "R", "E", "D", " ", "N", "O", ".", " ", "4", "0">>,
               <<>>,
               <<<<"R", "e", "d", " ", "4", "0">>>>)

Sucrose == Entry(<<"S", "U", "C", "R", "O", "S", "E">>, <<"S", "U", "C", "R", "O", "S", "E">>, <<>>)

AdditiveFiles ==
    {MissingFile,
     File(<<CitricAcid, Red40>>),
     File(<<Red40, Sucrose, CitricAcid>>),
     File(<<Red40, NotADict, CitricAcid>>)}

CommonFiles ==
    {MissingFile,
     File(<<Str(<<"W", "a", "t", "e", "r">>), Str(<<"C", "i", "t", "r", "i", "c", " ", "A", "c", "i", "d">>)>>),
     File(<<Str(<<"W", "a", "t", "e", "r">>), Str(<<"S", "u", "g", "a", "r">>), Str(<<"S", "u", "c", "r", "o", "s", "e">>), Str(<<"C", "i", "t", "r", "i", "c", " ", "A", "c", "i", "d">>)>>)}

\* the phrases the ingredient lists are made of
PhrasePool ==
    <<<<"W", "a", "t", "e", "r">>,
      <<"S", "u", "g", "a", "r">>,
      <<"C", "i", "t", "r", "i", "c", " ", "A", "c", "i", "d">>,
      <<"R", "e", "d", " ", "4", "0">>,
      <<"x", "y", "z">>,
      <<".">>>>

RECURSIVE join_commas(_)
join_commas(phrases) ==
    IF Len(phrases) = 1 THEN phrases[1]
    ELSE phrases[1] \o <<",", " ">> \o join_commas(Tail(phrases))

ScenarioA ==
    <<"W", "a", "t", "e", "r", ",", " ", "S", "u", "g", "a", "r", ",", " ", "C", "i", "t", "r", "i", "c", " ", "A", "c", "i", "d", ",", " ", "R", "e", "d", " ", "4", "0">>

\* ingredient lists that exercise the label, the descriptors and the parentheses
ExtraInputs ==
    {ScenarioA,
     <<"I", "n", "g", "r", "e", "d", "i", "e", "n", "t", "s", ":", " ", "W", "a", "t", "e", "r", ",", " ", "S", "u", "g", "a", "r", ".">>,
     <<"W", "a", "t", "e", "r", " ", "(", "C", "o", "l", "o", "r", ")", ",", " ", "X", "y", "z", " ", "a", "n", "d", "/", "o", "r", " ", "S", "u", "g", "a", "r">>,
     <<"S", "u", "g", "a", "r", " ", "(", "R", "e", "d", " ", "4", "0", " ", "a", "n", "d", " ", "W", "a", "t", "e", "r", ",", " ", "N", "o", ".", " ", "2", " ", "(", "x", "y", "z", ")", ")", ";", " ", "W", "a", "t", "e", "r">>,
     <<"W", "a", "t", "e", "r", " ", "[", "V", "i", "t", "a", "m", "i", "n", " ", "B", "2", "]", ",", " ", "C", "i", "t", "r", "i", "c", " ", "A", "c", "i", "d", " ", "(", "v", "i", "t", "a", "m", "i", "n", " ", "c", ")">>,
     <<"S", "u", "g", "a", "r", " ", "(", "x", "y", "z", " ", "a", "n", "d", "e", "s", ",", " ", "R", "e", "d", " ", "4", "0", " ", "a", "n", "d", " ", "W", "a", "t", "e", "r", ")">>}

Inputs ==
    {<<>>} \cup ExtraInputs
    \cup {join_commas([k \in DOMAIN f |-> PhrasePool[f[k]]]) :
            f \in UNION {[1..n -> 1..Len(PhrasePool)] : n \in 1..MaxPhrases}}

\* load_data_lookups(), called once when the module is imported
LoadDataLookups ==
    /\ app_pc = "import"
    /\ LET idx == IF additives_file.readable
                  THEN load_additives(additives_file.data, 1,
                                      [additives |-> ADDITIVES_LOOKUP,
                                       details |-> FDA_SUBSTANCE_DETAILS_LOOKUP])
                  ELSE [additives |-> ADDITIVES_LOOKUP,
                        details |-> FDA_SUBSTANCE_DETAILS_LOOKUP]
           temp_common_ingredients_set ==
               IF common_file.readable
               THEN DOMAIN load_common(common_file.data, 1, EmptyDict)
               ELSE {}
       IN  /\ ADDITIVES_LOOKUP' = idx.additives
           /\ FDA_SUBSTANCE_DETAILS_LOOKUP' = idx.details
           /\ COMMON_INGREDIENTS_LOOKUP' =
                  IF common_file.readable
                  THEN load_common(common_file.data, 1, COMMON_INGREDIENTS_LOOKUP)
                  ELSE COMMON_INGREDIENTS_LOOKUP
           /\ COMMON_FDA_SUBSTANCES_SET' =
                  COMMON_FDA_SUBSTANCES_SET
                  \cup {canonical_fda_name \in
                            {idx.additives[k] : k \in DOMAIN idx.additives} :
                                canonical_fda_name \in temp_common_ingredients_set}
    /\ app_pc' = "ready"
    /\ UNCHANGED <<additives_file, common_file, ingredients_string, analysis, calls>>
    /\ UNCHANGED <<cacheVars, novaVars>>

\* C18 variant of the call: analyze_ingredients remembers every phrase it
\* could not identify as a common ingredient.
C18_AnalyzeIngredients_learning(s) ==
    /\ ingredients_string' = s
    /\ analysis' = analyze_ingredients(s)
    /\ calls' = Append(calls, [ingredients_string |-> s, returned |-> analysis'])
    /\ app_pc' = "done"
    /\ COMMON_INGREDIENTS_LOOKUP' =
           SetAll(COMMON_INGREDIENTS_LOOKUP,
                  {lower(n) : n \in analysis'.truly_unidentified_ingredients}, <<"x">>)
    /\ UNCHANGED <<additives_file, common_file, ADDITIVES_LOOKUP,
                   COMMON_FDA_SUBSTANCES_SET, FDA_SUBSTANCE_DETAILS_LOOKUP>>
    /\ UNCHANGED <<cacheVars, novaVars>>

\* C19 variant of the call: analyze_ingredients marks every canonical name
\* it reported as also common.
C19_AnalyzeIngredients_marking(s) ==
    /\ ingredients_string' = s
    /\ analysis' = analyze_ingredients(s)
    /\ calls' = Append(calls, [ingredients_string |-> s, returned |-> analysis'])
    /\ app_pc' = "done"
    /\ COMMON_FDA_SUBSTANCES_SET' =
           COMMON_FDA_SUBSTANCES_SET
           \cup {lower(n) : n \in analysis'.identified_fda_non_common}
    /\ UNCHANGED <<additives_file, common_file, ADDITIVES_LOOKUP,
                   COMMON_INGREDIENTS_LOOKUP, FDA_SUBSTANCE_DETAILS_LOOKUP>>
    /\ UNCHANGED <<cacheVars, novaVars>>

\* one call analyze_ingredients(s): it reads the lookups and writes only
\* locals; the history records what the caller saw
AnalyzeIngredients(s) ==
    /\ ingredients_string' = s
    /\ analysis' = analyze_ingredients(s)
    /\ calls' = Append(calls, [ingredients_string |-> s, returned |-> analysis'])
    /\ app_pc' = "done"
    /\ UNCHANGED <<additives_file, common_file, indexVars>>
    /\ UNCHANGED <<cacheVars, novaVars>>

\* a caller hands an ingredient list to analyze_ingredients
Analyze ==
    /\ app_pc = "ready"
    /\ \E s \in Inputs : AnalyzeIngredients(s)

InitAnalyze ==
    /\ additives_file \in AdditiveFiles
    /\ common_file \in CommonFiles
    /\ AppImported
    /\ CacheUnused
    /\ NovaUnused

NextAnalyze ==
    \/ LoadDataLookups
    \/ Analyze

SpecAnalyze == InitAnalyze /\ [][NextAnalyze]_vars

(***************************************************************************)
(* Repeated analyze_ingredients calls in one process                       *)
(***************************************************************************)

\* the ingredient lists that are handed in again and again
RepeatInputs ==
    {<<>>,
     ScenarioA,
     <<"x", "y", "z", ",", " ", "R", "e", "d", " ", "4", "0">>,
     <<"S", "u", "g", "a", "r", " ", "(", "x", "y", "z", ")">>}

\* a further analyze_ingredients call of the running application
AnalyzeAgain ==
    /\ app_pc \in {"ready", "done"}
    /\ Len(calls) < MaxCalls
    /\ \E s \in RepeatInputs : AnalyzeIngredients(s)

NextRepeat ==
    \/ LoadDataLookups
    \/ AnalyzeAgain

SpecRepeat == InitAnalyze /\ [][NextRepeat]_vars

(***************************************************************************)
(* load_data_lookups on enumerated substance lists, then one phrase        *)
(***************************************************************************)

RedNo40 == Entry(<<"F", "D", "&", "C", " ", "R", "e", "d", " ", "N", "o", ".", " ", "4", "0">>, <<>>, <<>>)

\* a second record that declares the name the curated rule gives to sucrose
Dextrose == Entry(<<"D", "E", "X", "T", "R", "O", "S", "E">>, <<>>, <<<<"S", "u", "g", "a", "r">>>>)

Annatto == Entry(<<"A", "N", "N", "A", "T", "T", "O", " ", "E", "X", "T", "R", "A", "C", "T">>, <<>>, <<>>)

\* the records the enumerated substance lists are made of
RecordPool == {RedNo40, Sucrose, Dextrose, Annatto, CitricAcid}

\* every list of up to MaxEntries different records of the pool, in every order
IndexAdditiveFiles ==
    {File(data) : data \in {f \in UNION {[1..n -> RecordPool] : n \in 0..MaxEntries} :
                               \A i, j \in DOMAIN f : f[i] = f[j] => i = j}}

IndexCommonFiles ==
    {MissingFile,
     File(<<Str(<<"W", "a", "t", "e", "r">>)>>),
     File(<<Str(<<"W", "a", "t", "e", "r">>), Str(<<"S", "u", "g", "a", "r">>)>>),
     File(<<Str(<<"W", "a", "t", "e", "r">>), Str(<<"S", "u", "g", "a", "r">>), Str(<<"S", "u", "c", "r", "o", "s", "e">>), Str(<<"C", "i", "t", "r", "i", "c", " ", "A", "c", "i", "d">>)>>)}

\* every name a record of the pool registers, as a one-phrase ingredient list
RegisteredNames ==
    UNION {names_to_add(entry, canonical_key(entry.heading)) : entry \in RecordPool}

\* phrases with more than one window that is a key, and a list of two phrases
IndexInputs ==
    (RegisteredNames \ {<<>>})
    \cup {<<"r", "e", "d", " ", "4", "0">>,
          <<"W", "a", "t", "e", "r">>,
          <<"S", "u", "g", "a", "r", " ", "C", "i", "t", "r", "i", "c", " ", "A", "c", "i", "d">>,
          <<"W", "a", "t", "e", "r", " ", "C", "i", "t", "r", "i", "c", " ", "A", "c", "i", "d">>,
          <<"C", "i", "t", "r", "i", "c", " ", "A", "c", "i", "d", " ", "W", "a", "t", "e", "r", " ", "S", "u", "g", "a", "r">>,
          <<"F", "D", "&", "C", " ", "R", "e", "d", " ", "N", "o", ".", " ", "4", "0", ",", " ", "r", "e", "d", " ", "4", "0">>}

\* a caller hands one of these ingredient lists to analyze_ingredients
AnalyzePhrase ==
    /\ app_pc = "ready"
    /\ \E s \in IndexInputs : AnalyzeIngredients(s)

InitIndex ==
    /\ additives_file \in IndexAdditiveFiles
    /\ common_file \in IndexCommonFiles
    /\ AppImported
    /\ CacheUnused
    /\ NovaUnused

NextIndex ==
    \/ LoadDataLookups
    \/ AnalyzePhrase

SpecIndex == InitIndex /\ [][NextIndex]_vars

(***************************************************************************)
(* calculate_nova_score on every combination of collections                *)
(***************************************************************************)

\* collections of 0..MaxNames names
Collections == {1..k : k \in 0..MaxNames}

CalculateNova ==
    /\ nova_result = NoNovaResult
    /\ nova_result' =
           [app_old |-> calculate_nova_score_old(
                            nova_args.identified_fda_non_common,
                            nova_args.identified_fda_common,
                            nova_args.identified_common_ingredients_only,
                            nova_args.truly_unidentified_ingredients),
            app |-> calculate_nova_score(
                        nova_args.identified_fda_non_common,
                        nova_args.identified_fda_common,
                        nova_args.identified_common_ingredients_only,
                        nova_args.truly_unidentified_ingredients)]
    /\ UNCHANGED <<nova_args, score_args, score_result>>
    /\ UNCHANGED <<cacheVars, analyzeVars>>

InitNova ==
    /\ nova_args \in [{"identified_fda_non_common", "identified_fda_common",
                       "identified_common_ingredients_only",
                       "truly_unidentified_ingredients"} -> Collections]
    /\ nova_result = NoNovaResult
    /\ ScoreUnused
    /\ CacheUnused
    /\ AnalyzeUnused

NextNova == CalculateNova

SpecNova == InitNova /\ [][NextNova]_vars

(***************************************************************************)
(* The completeness scorers on every pair of counts                        *)
(***************************************************************************)

\* the scorers of app.py, ingredient_parser.py and ingredient_parser_service.py
\* called on the same counts; app.py's score is in whole percent
CalculateCompleteness ==
    /\ score_result = NoScoreResult
    /\ score_result' =
           LET identified == score_args.total - score_args.unidentified
           IN  [app |-> <<data_score_percentage(identified, score_args.total),
                          completeness_level(identified, score_args.total)>>,
                ingredient_parser |->
                    calculate_data_completeness(score_args.total,
                                                score_args.unidentified),
                service |-> service_data_score(score_args.total, identified)]
    /\ UNCHANGED <<nova_args, nova_result, score_args>>
    /\ UNCHANGED <<cacheVars, analyzeVars>>

InitScore ==
    /\ score_args \in {a \in [total : 0..MaxItems, unidentified : 0..MaxItems] :
                          a.unidentified <= a.total}
    /\ score_result = NoScoreResult
    /\ nova_args = NoNovaArgs
    /\ nova_result = NoNovaResult
    /\ CacheUnused
    /\ AnalyzeUnused

NextScore == CalculateCompleteness

SpecScore == InitScore /\ [][NextScore]_vars

(***************************************************************************)
(* Claims                                                                  *)
(***************************************************************************)

\* C1: in every reachable state the table holds at most AIRTABLE_MAX_ROWS
\* rows.  Two handlers that both count the rows before either inserts break it.
C1_SizeAtMostCapacity == Len(airtable) <= AIRTABLE_MAX_ROWS

\* C2: in every reachable state the table holds at most one row per GTIN.
\* Two handlers that both miss on the same GTIN break it.
C2_OneRowPerGtin ==
    \A i, j \in 1..Len(airtable) :
        airtable[i].gtin_upc = airtable[j].gtin_upc => i = j

\* C3: the row delete_least_valuable_row removes has the smallest
\* effective_score of the table, the oldest last_access among the rows of
\* that score, and no other row is removed; with capacity 2, A (5 lookups,
\* fresh) and B (1 lookup, 30 days old), the lookup of C leaves A and C.
C3_IsLeastValuable(table, i) ==
    \A j \in 1..Len(table) :
        \/ effective_score(table[i], now) < effective_score(table[j], now)
        \/ /\ effective_score(table[i], now) = effective_score(table[j], now)
           /\ last_access_dt(table[i]) <= last_access_dt(table[j])

C3_ScenarioC ==
    <<[id |-> 1, gtin_upc |-> "A", lookup_count |-> 5, last_access |-> StaleDays],
      [id |-> 2, gtin_upc |-> "B", lookup_count |-> 1, last_access |-> 0]>>

C4_HitCountCountsEveryHit ==
    \A i \in 1..Len(airtable) :
        airtable[i].lookup_count = 1 + hits[airtable[i].id]

\* the four result collections of analyze_ingredients
C5_Categories ==
    {"identified_fda_non_common", "identified_fda_common",
     "identified_common_ingredients_only", "truly_unidentified_ingredients"}

\* C5: every segmented phrase that is not empty after normalization is added
\* to exactly one of the four result collections of analyze_ingredients,
\* never to none and never to two, and the collections hold nothing else.
C5_ExactlyOneCategory ==
    app_pc = "done" =>
        /\ \A k \in 1..Len(analysis.components) :
              normalize_component(analysis.components[k]) # <<>> =>
                  /\ Cardinality(analysis.classified[k].adds \cap C5_Categories) = 1
                  /\ analysis.classified[k].adds \subseteq C5_Categories
                  /\ \A c \in analysis.classified[k].adds :
                        analysis.classified[k].name \in analysis[c]
        /\ \A c \in C5_Categories : \A name \in analysis[c] :
              \E k \in 1..Len(analysis.components) :
                  /\ analysis.classified[k].adds = {c}
                  /\ analysis.classified[k].name = name

\* C5 witness: one analysis has put a phrase in each of the four collections.
C5_Witness ==
    /\ app_pc = "done"
    /\ \A c \in C5_Categories :
          \E k \in 1..Len(analysis.components) : analysis.classified[k].adds = {c}

\* the words of a phrase as the loop of analyze_ingredients sees them
C6_words(original_component) == split_words(normalize_component(original_component))

C7_Table(non_common, fda_common, common_only, unidentified) ==
    CASE non_common # {} -> 4
      [] non_common = {} /\ Cardinality(unidentified) > 2 -> 4
      [] OTHER ->
           IF \/ (common_only # {} /\ fda_common # {})
              \/ (Cardinality(common_only) >= 2 /\ fda_common = {} /\ unidentified = {})
           THEN 3
           ELSE IF fda_common # {} /\ common_only = {} /\ unidentified = {} THEN 2
           ELSE IF common_only # {} /\ fda_common = {} /\ unidentified = {} THEN 1
           ELSE IF common_only = {} /\ fda_common = {} /\ unidentified = {} THEN 1
           ELSE 3

\* C7: for every combination of the four collections, calculate_nova_score
\* of app_old.py and api/gtin-lookup.py returns the level of the first
\* matching rule of the seven-rule table, an integer in 1..4.
C7_NovaFollowsTable ==
    nova_result # NoNovaResult =>
        /\ nova_result.app_old[1] =
               C7_Table(nova_args.identified_fda_non_common,
                        nova_args.identified_fda_common,
                        nova_args.identified_common_ingredients_only,
                        nova_args.truly_unidentified_ingredients)
        /\ nova_result.app_old[1] \in 1..4

\* C7 witness: a single common ingredient alone has been scored 1 by rule 5
\* (rule 3 asks for two or more).
C7_Witness ==
    /\ nova_result # NoNovaResult
    /\ Cardinality(nova_args.identified_common_ingredients_only) = 1
    /\ nova_args.identified_fda_non_common = {}
    /\ nova_args.identified_fda_common = {}
    /\ nova_args.truly_unidentified_ingredients = {}
    /\ nova_result.app_old[1] = 1

\* C8: app.py's calculate_nova_score returns level 1 for exactly one common
\* ingredient when the three other collections are empty.  Rule 3 of app.py
\* returns 3 before rule 5 is looked at.
C8_SingleCommonOnlyIsLevel1 ==
    ( /\ nova_result # NoNovaResult
      /\ Cardinality(nova_args.identified_common_ingredients_only) = 1
      /\ nova_args.identified_fda_non_common = {}
      /\ nova_args.identified_fda_common = {}
      /\ nova_args.truly_unidentified_ingredients = {} ) =>
        nova_result.app[1] = 1

\* the positions of the phrases analyze_ingredients found unidentified
C9_Unidentified ==
    {k \in 1..Len(analysis.components) :
        analysis.classified[k].adds = {"truly_unidentified_ingredients"}}

\* C9 as stated: more than 2 phrases categorized as unidentified, repeated
\* ones included, give NOVA score 4.
C9_ManyUnidentifiedPhrasesIsLevel4 ==
    (app_pc = "done" /\ Cardinality(C9_Unidentified) > 2) => analysis.nova_score = 4

\* C9 amended: more than 2 different phrases categorized as unidentified
\* give NOVA score 4; a phrase repeated in the input counts once.
C9_ManyDistinctUnidentifiedIsLevel4 ==
    ( /\ app_pc = "done"
      /\ Cardinality({analysis.components[k] : k \in C9_Unidentified}) > 2 ) =>
        analysis.nova_score = 4

\* C9 witness: three different unidentified phrases and no non-common
\* additive have been scored 4.
C9_Witness ==
    /\ app_pc = "done"
    /\ Cardinality({analysis.components[k] : k \in C9_Unidentified}) > 2
    /\ analysis.identified_fda_non_common = {}
    /\ analysis.nova_score = 4

\* the positions of the phrases that are not empty after normalization
C10_Kept ==
    {k \in 1..Len(analysis.components) :
        normalize_component(analysis.components[k]) # <<>>}

\* C10: a phrase that is empty after normalization is put in no collection
\* and is not counted in total_analyzed_items, so the data score is the
\* share of categorized phrases among the phrases kept.  The code counts
\* the phrases before it skips any.
C10_SkippedPhraseNotCounted ==
    app_pc = "done" =>
        /\ \A k \in 1..Len(analysis.components) :
              k \notin C10_Kept => analysis.classified[k].adds = {}
        /\ analysis.total_analyzed_items = Cardinality(C10_Kept)
        /\ analysis.data_score =
               data_score_percentage(analysis.categorized_items_count,
                                     Cardinality(C10_Kept))

\* C11: every completeness score is within 0..100, and with zero phrases
\* the score is 100, the level High and the processing level 1, in
\* analyze_ingredients and in calculate_data_completeness alike.
\* calculate_data_completeness returns 0.0 and "No Ingredients Provided".
C11_ScoreInRangeAnd100WhenEmpty ==
    score_result # NoScoreResult =>
        /\ score_result.app[1] \in 0..100
        /\ score_result.ingredient_parser[1] \in 0..10000
        /\ score_args.total = 0 =>
              /\ score_result.app = <<100, "High">>
              /\ analyze_ingredients(<<>>).data_score = 100
              /\ analyze_ingredients(<<>>).data_completeness_level = "High"
              /\ analyze_ingredients(<<>>).nova_score = 1
              /\ score_result.ingredient_parser = <<10000, "High">>

\* the level the claimed mapping gives to a score of part out of whole
C12_Level(part, whole) ==
    IF part * 100 >= 90 * whole THEN "High"
    ELSE IF part * 100 >= 70 * whole THEN "Medium"
    ELSE "Low"

\* C12: in analyze_ingredients, in gtin_lookup of ingredient_parser_service
\* and in calculate_data_completeness the level is High when the score is at
\* least 90, Medium when it is at least 70 and below 90, Low below 70.
\* calculate_data_completeness says Medium from 60 on.
C12_LevelThresholds ==
    (score_result # NoScoreResult /\ score_args.total > 0) =>
        LET level == C12_Level(score_args.total - score_args.unidentified,
                               score_args.total)
        IN  /\ score_result.app[2] = level
            /\ score_result.service[2] = level
            /\ score_result.ingredient_parser[2] = level

\* the rows of a table other than the row with the given id, in order
C13_Others(table, id) == SelectSeq(table, LAMBDA r : r.id # id)

C14_StoreOfExistingKeyKeepsSize ==
    [][ \A p \in Workers :
          ( /\ req[p].pc = "insert"
            /\ req'[p].pc = "idle"
            /\ search(airtable, req[p].gtin) # <<>> ) =>
              /\ Len(airtable') = Len(airtable)
              /\ \A i \in 1..Len(airtable) :
                    /\ airtable'[i].id = airtable[i].id
                    /\ airtable'[i].gtin_upc = airtable[i].gtin_upc
                    /\ airtable'[i].lookup_count = airtable[i].lookup_count
                    /\ airtable'[i].last_access = airtable[i].last_access
      ]_vars

C16_LookupCountNeverDecreases ==
    [][ \A i \in 1..Len(airtable) : \A j \in 1..Len(airtable') :
          airtable'[j].id = airtable[i].id =>
              airtable'[j].lookup_count >= airtable[i].lookup_count
      ]_vars

\* C17: check_airtable_cache on a GTIN that has no row returns a miss and
\* leaves the table as it was: no row is created, removed or modified.
C17_MissLeavesTableUnchanged ==
    [][ \A p \in Workers :
          /\ ( /\ req[p].pc = "idle"
               /\ req'[p].pc # "idle"
               /\ search(airtable, req'[p].gtin) = <<>> ) =>
                 /\ req'[p].pc = "fetch"
                 /\ airtable' = airtable
                 /\ hits' = hits
          /\ (req[p].pc \in {"idle", "update"} /\ req'[p].pc = "fetch") =>
                 /\ airtable' = airtable
                 /\ search(airtable, req'[p].gtin) = <<>>
                    \/ ~HasId(airtable, req[p].record_id)
      ]_vars

\* C17 witness: a lookup has missed on a table that holds other rows.
C17_Witness ==
    \E p \in Workers :
        /\ req[p].pc = "fetch"
        /\ airtable # <<>>
        /\ search(airtable, req[p].gtin) = <<>>


\* what C18 compares of a returned analysis
C18_Result(a) ==
    <<a.identified_fda_non_common, a.identified_fda_common,
      a.identified_common_ingredients_only, a.truly_unidentified_ingredients,
      a.data_score, a.data_completeness_level, a.nova_score, a.nova_description>>

C19_IndexNeverWrittenAfterLoad ==
    [][app_pc # "import" => UNCHANGED indexVars]_vars

\* several calls have run on loaded, non-empty lookups
C19_Witness ==
    /\ Len(calls) >= 2
    /\ ADDITIVES_LOOKUP # EmptyDict
    /\ COMMON_INGREDIENTS_LOOKUP # EmptyDict
    /\ COMMON_FDA_SUBSTANCES_SET # {}
    /\ \E i \in DOMAIN calls : calls[i].returned.identified_fda_common # {}

\* a data file that is missing, is no JSON, or has an element of the wrong type
C20_AdditivesMalformed ==
    \/ ~additives_file.readable
    \/ \E i \in DOMAIN additives_file.data : ~additives_file.data[i].is_dict

C20_CommonMalformed ==
    \/ ~common_file.readable
    \/ \E i \in DOMAIN common_file.data : ~common_file.data[i].is_str

\* with nothing loaded every phrase that is not skipped is unidentified
C20_EmptyIndexAllUnidentified ==
    (/\ app_pc = "done"
     /\ ADDITIVES_LOOKUP = EmptyDict
     /\ COMMON_INGREDIENTS_LOOKUP = EmptyDict)
    => /\ analysis.identified_fda_non_common = {}
       /\ analysis.identified_fda_common = {}
       /\ analysis.identified_common_ingredients_only = {}
       /\ \A k \in 1..Len(analysis.components) :
              analysis.classified[k].adds \subseteq {"truly_unidentified_ingredients"}

\* C20: after load_data_lookups on a missing or malformed substance file
\* the alias map is empty, on a missing or malformed common-ingredient file
\* the common-ingredient map is empty, and analyze_ingredients on empty
\* lookups reports every phrase as unidentified.
C20_MalformedSourceLoadsEmpty ==
    /\ (app_pc # "import" /\ C20_AdditivesMalformed) =>
           (ADDITIVES_LOOKUP = EmptyDict /\ COMMON_FDA_SUBSTANCES_SET = {})
    /\ (app_pc # "import" /\ C20_CommonMalformed) =>
           COMMON_INGREDIENTS_LOOKUP = EmptyDict
    /\ C20_EmptyIndexAllUnidentified


\* the normalized aliases one record registers
C21_registers(entry) ==
    IF entry.heading = <<>> THEN {}
    ELSE {alias_key(n) :
            n \in names_to_add(entry, canonical_key(entry.heading)) \ {<<>>}} \ {<<>>}

\* the positions in the substance list of the records that register alias
C21_registrars(alias) ==
    {i \in DOMAIN additives_file.data : alias \in C21_registers(additives_file.data[i])}

\* C21: when load_data_lookups has returned, every alias maps to the
\* canonical name of the last record in the substance list that registers
\* it, and every alias a record registers is in the map.
C21_LastRecordWins ==
    (app_pc = "ready" /\ additives_file.readable) =>
        /\ \A i \in DOMAIN additives_file.data :
              C21_registers(additives_file.data[i]) \subseteq DOMAIN ADDITIVES_LOOKUP
        /\ \A alias \in DOMAIN ADDITIVES_LOOKUP :
              /\ C21_registrars(alias) # {}
              /\ \E last \in C21_registrars(alias) :
                    /\ \A i \in C21_registrars(alias) : i <= last
                    /\ ADDITIVES_LOOKUP[alias] =
                           canonical_key(additives_file.data[last].heading)

\* two records with different canonical names registered the same alias
C21_Witness ==
    /\ app_pc = "ready"
    /\ \E alias \in DOMAIN ADDITIVES_LOOKUP : \E i, j \in C21_registrars(alias) :
          /\ i < j
          /\ canonical_key(additives_file.data[i].heading)
                 # canonical_key(additives_file.data[j].heading)
          /\ ADDITIVES_LOOKUP[alias] = canonical_key(additives_file.data[j].heading)


C22_Regulated == {"identified_fda_non_common", "identified_fda_common"}

\* C22: on an index built from a list that holds the record "FD&C Red No. 40",
\* the phrases "FD&C Red No. 40" and "red 40" are both matched in the alias
\* map and are reported under the same canonical name.
C22_RedNo40ResolvesLikeRed40 ==
    (/\ app_pc = "done"
     /\ RedNo40 \in Range(additives_file.data)
     /\ ingredients_string = <<"F", "D", "&", "C", " ", "R", "e", "d", " ", "N", "o", ".", " ", "4", "0", ",", " ", "r", "e", "d", " ", "4", "0">>)
    => /\ Len(analysis.components) = 2
       /\ \A k \in 1..2 : /\ analysis.classified[k].adds # {}
                          /\ analysis.classified[k].adds \subseteq C22_Regulated
       /\ analysis.classified[1].name = analysis.classified[2].name


\* the windows <<i, j>> of words that are keys of the alias map
C23_windows(words) ==
    {w \in (1..Len(words)) \X (1..Len(words)) :
        /\ w[1] <= w[2]
        /\ join(SubSeq(words, w[1], w[2])) \in DOMAIN ADDITIVES_LOOKUP}

\* the longest of them, the leftmost among those of that length
C23_longest(words) ==
    CHOOSE w \in C23_windows(words) :
        \A v \in C23_windows(words) :
            \/ v[2] - v[1] < w[2] - w[1]
            \/ (v[2] - v[1] = w[2] - w[1] /\ w[1] <= v[1])

\* C23: a phrase with a window in the alias map is reported under the
\* canonical name of its longest such window, the leftmost of that length.
C23_LongestWindowMatched ==
    app_pc = "done" =>
        \A k \in 1..Len(analysis.components) :
            LET words == split_words(normalize_component(analysis.components[k]))
            IN  C23_windows(words) # {} =>
                    LET w == C23_longest(words)
                    IN  analysis.classified[k].name =
                            display_name(ADDITIVES_LOOKUP[join(SubSeq(words, w[1], w[2]))])


\* the windows <<i, j>> of words that are keys of the common-ingredient map
C24_common_windows(words) ==
    {w \in (1..Len(words)) \X (1..Len(words)) :
        /\ w[1] <= w[2]
        /\ join(SubSeq(words, w[1], w[2])) \in DOMAIN COMMON_INGREDIENTS_LOOKUP}

C24_words(k) == split_words(normalize_component(analysis.components[k]))

C25_rank(r) ==
    CASE r.pc = "idle" /\ r.status = "none" -> 0
      [] r.pc = "update" -> 1
      [] r.pc = "fetch" -> 2
      [] r.pc = "count" -> 3
      [] r.pc = "evict" -> 4
      [] r.pc = "delete" -> 5
      [] r.pc = "insert" -> 6
      [] OTHER -> 7

C26_AnsweredCachedIsCached ==
    [][(req[1].pc = "insert" /\ req'[1].status = "pulled_from_usda_and_cached") =>
           search(airtable', req[1].gtin) # <<>>
      ]_vars


\* the records of the substance list that register the analyzed text as a
\* name and are the last to register its alias
C27_owners ==
    {i \in DOMAIN additives_file.data :
        /\ ingredients_string
               \in names_to_add(additives_file.data[i],
                               canonical_key(additives_file.data[i].heading))
        /\ alias_key(ingredients_string) # <<>>
        /\ \A j \in C21_registrars(alias_key(ingredients_string)) : j <= i}

\* C27: a name that a record registers, analyzed as the only ingredient, is
\* one phrase that is reported as a regulated substance under the heading
\* of that record's canonical name.
C27_RegisteredNameResolves ==
    (app_pc = "done" /\ additives_file.readable) =>
        \A i \in C27_owners :
            /\ Len(analysis.components) = 1
            /\ analysis.classified[1].adds # {}
            /\ analysis.classified[1].adds \subseteq C22_Regulated
            /\ analysis.classified[1].name =
                   display_name(canonical_key(additives_file.data[i].heading))


\* the alias-map key that Pass 1 matches in words, <<>> when it matches none
C28_matched_key(words) ==
    LET starts == {i \in 1..Len(words) :
                      /\ first_hit(words, i, ADDITIVES_LOOKUP) # 0
                      /\ ADDITIVES_LOOKUP[join(SubSeq(words, i,
                             first_hit(words, i, ADDITIVES_LOOKUP)))] # <<>>}
    IN  IF starts = {} THEN <<>>
        ELSE join(SubSeq(words, Min(starts),
                         first_hit(words, Min(starts), ADDITIVES_LOOKUP)))

\* C28: a phrase whose matched alias-map key is also a key of the
\* common-ingredient map is reported as a regulated common substance.
C28_CommonAliasIsRegulatedCommon ==
    app_pc = "done" =>
        \A k \in 1..Len(analysis.components) :
            C28_matched_key(C24_words(k)) \in DOMAIN COMMON_INGREDIENTS_LOOKUP =>
                analysis.classified[k].adds = {"identified_fda_common"}


\* C29: the row that app_old.py's delete_least_valuable_row picks is the
\* row that app.py's delete_least_valuable_row picks on the same table.
C29_EvictionRoutinesAgree ==
    [][req'[1].pc = "delete" =>
           req'[1].victim = airtable[least_valuable_app(airtable)].id]_vars


\* the pieces of a parenthetical span between commas and occurrences of the
\* whole word "and"; cur is the piece being read
RECURSIVE C30_split_words_and(_, _)
C30_split_words_and(s, cur) ==
    IF s = <<>> THEN <<cur>>
    ELSE IF s[1] = ","
         THEN <<cur>> \o C30_split_words_and(Tail(s), <<>>)
    ELSE IF /\ StartsWith(s, <<"a", "n", "d">>)
            /\ (cur = <<>> \/ IsSpace(cur[Len(cur)]))
            /\ (Len(s) = 3 \/ IsSpace(s[4]))
         THEN <<cur>> \o C30_split_words_and(Drop(s, 3), <<>>)
    ELSE C30_split_words_and(Tail(s), Append(cur, s[1]))

\* the phrase list the claim describes, of a cleaned ingredient string
C30_phrases(cleaned) ==
    LET matches == parenthetical_matches(cleaned, 1)
        pieces[k \in 0..Len(matches)] ==
            IF k = 0 THEN <<>>
            ELSE pieces[k - 1] \o stripped_nonempty(C30_split_words_and(matches[k], <<>>))
    IN  stripped_nonempty(split_commas(strip(remove_parentheticals(cleaned, 1)), <<>>))
        \o pieces[Len(matches)]

\* C30: the phrases are the comma- and semicolon-separated pieces of the
\* text outside the parentheses, then the pieces of every parenthetical span
\* between commas and the whole word "and"; each is trimmed and not empty.
C30_SegmentsOnWholeWordAnd ==
    (app_pc = "done" /\ ingredients_string # <<>>) =>
        /\ analysis.components = C30_phrases(cleaned_string(ingredients_string))
        /\ \A k \in 1..Len(analysis.components) :
              /\ analysis.components[k] # <<>>
              /\ strip(analysis.components[k]) = analysis.components[k]

====
